---- MODULE Spec2Model ----
(***************************************************************************)
(* A model of diffpy.utils.parsers.loaddata: the streaming single-block    *)
(* scanner loadData and the whole-file indexer TextDataLoader.             *)
(*                                                                         *)
(* Text is modelled at the character level: a line is a sequence of        *)
(* one-character strings that ends with "\n", a file is a sequence of      *)
(* lines.  Splitting, trimming and float conversion are computed on the    *)
(* characters.                                                             *)
(***************************************************************************)
EXTENDS Integers, Sequences, FiniteSets, TLC

\* ------------------------------------------------------------------ bounds
\* Longest file, in lines, that the bounded input sets hold.
MaxLines == 4
\* Largest minrows of the bounded configurations.
MaxMinRows == 3
\* Longest file, in lines, of the bounded set of files given to readfp.
MaxFileLines == 3

\* Most readfp calls made on one loader.
MaxCalls == 2

\* -------------------------------------------------------- program constants
\* loadData(filename, minrows=10, ...)
DefaultMinRows == 10

\* ---------------------------------------------------------- text primitives
Digits == <<"0", "1", "2", "3", "4", "5", "6", "7", "8", "9">>

IsDigit(c) == \E i \in 1..10 : Digits[i] = c

DigitVal(c) == (CHOOSE i \in 1..10 : Digits[i] = c) - 1

\* Python's whitespace, restricted to the characters of the model.
IsSpace(c) == c \in {" ", "\n", "\t"}

RECURSIVE SplitWsFrom(_, _, _)
SplitWsFrom(s, cur, acc) ==
    IF s = <<>>
    THEN (IF cur = <<>> THEN acc ELSE Append(acc, cur))
    ELSE IF IsSpace(Head(s))
         THEN SplitWsFrom(Tail(s), <<>>, IF cur = <<>> THEN acc ELSE Append(acc, cur))
         ELSE SplitWsFrom(Tail(s), Append(cur, Head(s)), acc)

\* str.split() with no delimiter: the maximal runs of non-whitespace.
split(s) == SplitWsFrom(s, <<>>, <<>>)

RECURSIVE SplitDelFrom(_, _, _, _)
SplitDelFrom(s, d, cur, acc) ==
    IF s = <<>>
    THEN Append(acc, cur)
    ELSE IF Head(s) = d
         THEN SplitDelFrom(Tail(s), d, <<>>, Append(acc, cur))
         ELSE SplitDelFrom(Tail(s), d, Append(cur, Head(s)), acc)

\* str.split(d) for a one-character delimiter: empty parts are kept.
splitOn(s, d) == SplitDelFrom(s, d, <<>>, <<>>)

RECURSIVE lstrip(_)
lstrip(s) == IF s # <<>> /\ IsSpace(Head(s)) THEN lstrip(Tail(s)) ELSE s

RECURSIVE rstrip(_)
rstrip(s) ==
    IF s # <<>> /\ IsSpace(s[Len(s)]) THEN rstrip(SubSeq(s, 1, Len(s) - 1)) ELSE s

\* str.strip()
strip(s) == rstrip(lstrip(s))

\* isfloat(s): float(s) succeeds.  Over the characters of the model the
\* strings float() accepts are the non-empty digit strings.
isfloat(s) == s # <<>> /\ \A i \in 1..Len(s) : IsDigit(s[i])

RECURSIVE DecimalValue(_)
DecimalValue(s) ==
    IF s = <<>> THEN 0
    ELSE 10 * DecimalValue(SubSeq(s, 1, Len(s) - 1)) + DigitVal(s[Len(s)])

\* float(s) for a string that converts.
float(s) == DecimalValue(s)

\* s[:n] == tag
StartsWith(s, tag) == Len(s) >= Len(tag) /\ SubSeq(s, 1, Len(tag)) = tag

RECURSIVE Concat(_)
\* ''.join(lines)
Concat(ls) == IF ls = <<>> THEN <<>> ELSE Head(ls) \o Concat(Tail(ls))

RECURSIVE SeqsUpTo(_, _)
\* All sequences over S of length at most n.
SeqsUpTo(S, n) ==
    IF n = 0 THEN {<<>>}
    ELSE LET shorter == SeqsUpTo(S, n - 1)
         IN  shorter \cup {Append(q, x) : q \in {r \in shorter : Len(r) = n - 1}, x \in S}

SeqMin(q) == CHOOSE m \in {q[i] : i \in 1..Len(q)} : \A i \in 1..Len(q) : m <= q[i]

SeqMax(q) == CHOOSE m \in {q[i] : i \in 1..Len(q)} : \A i \in 1..Len(q) : m >= q[i]

Max2(a, b) == IF a >= b THEN a ELSE b

\* An optional column selection: usecols=None, or a sequence of indices.
NoCols == [given |-> FALSE, cols |-> <<>>]

Cols(q) == [given |-> TRUE, cols |-> q]

\* ------------------------------------------------------------------ inputs
\* The lines files are made of.
LnTwo == <<"1", " ", "2", "\n">>

LnOne == <<"3", "\n">>

LnBlank == <<"\n">>

LnHdrNum == <<"k", " ", "=", "1", "0", "\n">>

LnHdrStr == <<"k", "=", "a", "\n">>

LnHdrIgn == <<"#", "k", "=", "1", "\n">>

LnHdrNoVal == <<"k", "=", " ", "\n">>

\* A row whose first column is a float and whose text is also a key/value pair.
LnRowHdr == <<"5", " ", "j", "=", "6", "\n">>

\* Files read for their data block, and files read for their header.
DataFiles == SeqsUpTo({LnTwo, LnOne, LnBlank, LnHdrStr, LnRowHdr}, MaxLines)

HeaderFiles ==
    SeqsUpTo({LnTwo, LnHdrNum, LnHdrStr, LnHdrIgn, LnHdrNoVal, LnRowHdr}, MaxLines)

\* A short candidate block, a qualifying block, and a later, longer one.
LaterLongerFile == <<LnHdrStr, LnTwo, LnOne, LnOne, LnBlank, LnTwo, LnTwo, LnTwo>>

\* hignore=None, or a list of tags.
NoTags == [given |-> FALSE, tags |-> <<>>]

Tags(q) == [given |-> TRUE, tags |-> q]

\* The spec's scenario: three header lines, then 12 rows of two floats.
ExampleFile ==
    << <<"q", "m", "a", "x", " ", "=", " ", "1", "0", "\n">>,
       <<"#", " ", "c", "o", "m", "m", "e", "n", "t", "\n">>,
       <<"[", "d", "e", "f", "a", "u", "l", "t", "s", "]", "\n">> >>
    \o [i \in 1..12 |-> <<Digits[(i % 10) + 1], " ", "2", "\n">>]

ExampleArgs ==
    [file |-> ExampleFile, minrows |-> DefaultMinRows, headers |-> TRUE,
     hignore |-> Tags(<< <<"#">>, <<"[">> >>), usecols |-> NoCols]

ScanArgs ==
    [file : DataFiles, minrows : 1..MaxMinRows, headers : {FALSE},
     hignore : {NoTags}, usecols : {NoCols, Cols(<<0>>), Cols(<<-1, 0>>)}]
    \cup
    [file : HeaderFiles, minrows : 1..MaxMinRows, headers : {TRUE},
     hignore : {NoTags}, usecols : {NoCols}]
    \cup
    [file : HeaderFiles, minrows : 1..MaxMinRows, headers : {TRUE},
     hignore : {Tags(<< <<"#">> >>)}, usecols : {NoCols, Cols(<<0>>)}]
    \cup
    [file : {LaterLongerFile}, minrows : {2}, headers : BOOLEAN,
     hignore : {NoTags}, usecols : {NoCols}]
    \cup {ExampleArgs}

\* ---------------------------------------------------------------- loadData
VARIABLES
    args,       \* loadData's arguments: file (the lines of filename), minrows,
                \* headers, hignore, usecols (kwargs.get('usecols'))
    pc,         \* "scan": in the for loop; "post": after it; "done": returned
    pos,        \* number of lines the for loop has read from fid
    start,      \* byte offset of the candidate block, None as NoStart
    ncvblock,   \* (columns, values) of the candidate block
    fpos,       \* (begin, end) byte offsets of the line last read
    nrows,      \* rows counted in the candidate block
    hdata,      \* the header map
    rv          \* what loadData returned

scanvars == <<args, pc, pos, start, ncvblock, fpos, nrows, hdata, rv>>

\* ------------------------------------------------- TextDataLoader: state
VARIABLES
    loader,     \* the TextDataLoader: minrows, usecols, headers, datasets,
                \* lines (_lines), value (_wordrecs.value)
    fp,         \* the lines of the file readfp is given
    exc,        \* the exception the last readfp raised, "none" if it returned
    emitted,    \* history: the source line range of each dataset of the loop
    calls       \* number of readfp calls made

\* What self.headers held on entry to the most recent readfp call.
VARIABLES before

loadervars == <<loader, fp, exc, emitted, calls, before>>

vars == <<scanvars, loadervars>>

\* start = None
NoStart == -1

\* hdel='='
hdel == "="

EmptyMap == [k \in {} |-> 0]

\* The two types of a header value.
FloatValue(x) == [isfloat |-> TRUE, num |-> x, str |-> <<>>]

StringValue(s) == [isfloat |-> FALSE, num |-> 0, str |-> s]

\* A map that keeps the first value stored for a key.
UpdateKeepFirst(hd, name, value) ==
    [k \in (DOMAIN hd) \cup {name} |-> IF k \in DOMAIN hd THEN hd[k] ELSE value]

\* hdata.update({name: value})
Update(hd, name, value) ==
    [k \in (DOMAIN hd) \cup {name} |-> IF k = name THEN value ELSE hd[k]]

\* words[i] of Python: a negative index counts from the end.
HasIndex(words, i) == -Len(words) <= i /\ i < Len(words)

At(words, i) == IF i >= 0 THEN words[i + 1] ELSE words[Len(words) + i + 1]

\* mincv: (1, 1), or with usecols (hiidx, len(set(usecols))).
mincv(usecols) ==
    IF usecols.given
    THEN <<Max2(-SeqMin(usecols.cols), SeqMax(usecols.cols) + 1),
           Cardinality({usecols.cols[i] : i \in 1..Len(usecols.cols)})>>
    ELSE <<1, 1>>

\* Python's order on pairs.
TupleLess(a, b) == a[1] < b[1] \/ (a[1] = b[1] /\ a[2] < b[2])

\* Words with the trailing blank columns removed; after split() none is blank.
RECURSIVE PopBlank(_)
PopBlank(words) ==
    IF words # <<>> /\ strip(words[Len(words)]) = <<>>
    THEN PopBlank(SubSeq(words, 1, Len(words) - 1))
    ELSE words

countcolumnsvalues(line, usecols) ==
    LET words == PopBlank(split(line))
        nc == Len(words)
    IN  IF usecols.given
        THEN IF \A k \in 1..Len(usecols.cols) :
                    /\ HasIndex(words, usecols.cols[k])
                    /\ isfloat(At(words, usecols.cols[k]))
             THEN <<nc, Len(usecols.cols)>>
             ELSE <<0, 0>>
        ELSE IF \A k \in 1..nc : isfloat(words[k])
             THEN <<nc, nc>>
             ELSE <<0, 0>>

\* Lines 96-122: the header map after the line dline.
HeaderStep(hd, dline, hignore) ==
    LET hpair == splitOn(dline, hdel)
    IN  IF Len(hpair) # 2 THEN hd
        ELSE LET name == strip(hpair[1])
                 value == strip(hpair[2])
             IN  IF name = <<>> \/ value = <<>> THEN hd
                 ELSE IF /\ hignore.given
                         /\ \E t \in 1..Len(hignore.tags) :
                                StartsWith(name, hignore.tags[t])
                 THEN hd
                 ELSE Update(hd, name,
                             IF isfloat(value) THEN FloatValue(float(value))
                             ELSE StringValue(value))

\* Byte offset of line i (1-based) of a file.
RECURSIVE Offset(_, _)
Offset(file, i) == IF i <= 1 THEN 0 ELSE Offset(file, i - 1) + Len(file[i - 1])

\* What fid holds from byte offset off on: the lines that start at or after it.
LinesFrom(file, off) ==
    LET first == {i \in 1..Len(file) : Offset(file, i) >= off}
    IN  IF first = {} THEN <<>>
        ELSE SubSeq(file, CHOOSE i \in first : \A j \in first : i <= j, Len(file))

\* numpy.loadtxt's reading of one line: the text before '#', split on whitespace.
RECURSIVE BeforeComment(_)
BeforeComment(s) ==
    IF s = <<>> \/ Head(s) = "#" THEN <<>> ELSE <<Head(s)>> \o BeforeComment(Tail(s))

\* numpy.loadtxt(fid, usecols=cols) on the lines left in fid: the rows of the
\* selected columns, or an error when a line lacks a column or holds a
\* non-float in one.  Lines that are blank or all comment are skipped.
loadtxt(lines, cols) ==
    LET words(i) == split(BeforeComment(lines[i]))
        rowsIdx == {i \in 1..Len(lines) : words(i) # <<>>}
        good(i) == \A k \in 1..Len(cols) :
                       HasIndex(words(i), cols[k]) /\ isfloat(At(words(i), cols[k]))
        row(i) == [k \in 1..Len(cols) |-> float(At(words(i), cols[k]))]
        RECURSIVE collect(_)
        collect(i) ==
            IF i > Len(lines) THEN <<>>
            ELSE (IF i \in rowsIdx THEN <<row(i)>> ELSE <<>>) \o collect(i + 1)
    IN  IF \A i \in rowsIdx : good(i)
        THEN [kind |-> "array", rows |-> collect(1), map |-> EmptyMap]
        ELSE [kind |-> "error", rows |-> <<>>, map |-> EmptyMap]

NoResult == [kind |-> "none", rows |-> <<>>, map |-> EmptyMap]

\* array([], dtype=float)
EmptyArray == [kind |-> "array", rows |-> <<>>, map |-> EmptyMap]

\* A scan that opens a new candidate block only after a rejected line.
IsFreshNoShape(st, ncv, blk) == st = NoStart

\* Line 132: the line opens a new candidate block.
IsFresh(st, ncv, blk) == st = NoStart \/ ncv # blk

\* A header pass that runs only while no candidate block is open.
HeaderPassOutsideBlock(headers, st) == headers /\ st = NoStart

\* Line 96: the header pass runs on a line when headers is set, whatever the
\* value of start left by the lines before.
HeaderPassRuns(headers, st) == headers

\* The state on entry to the for loop (lines 59-91).
ScanInit ==
    /\ args \in ScanArgs
    /\ pc = "scan"
    /\ pos = 0
    /\ start = NoStart
    /\ ncvblock = <<-1, -1>>
    /\ fpos = <<0, 0>>
    /\ nrows = 0
    /\ hdata = EmptyMap
    /\ rv = NoResult

\* One iteration of `for line in fid` (lines 92-139).
ScanLine ==
    /\ pc = "scan"
    /\ pos < Len(args.file)
    /\ LET line == args.file[pos + 1]
           fpos1 == <<fpos[2], fpos[2] + Len(line)>>
           ncv == countcolumnsvalues(line, args.usecols)
           fresh == IsFresh(start, ncv, ncvblock)
           nrows1 == (IF fresh THEN 0 ELSE nrows) + 1
       IN  /\ pos' = pos + 1
           /\ hdata' = IF HeaderPassRuns(args.headers, start)
                       THEN HeaderStep(hdata, line, args.hignore)
                       ELSE hdata
           /\ fpos' = fpos1
           /\ IF TupleLess(ncv, mincv(args.usecols))
              THEN /\ start' = NoStart
                   /\ pc' = "scan"
                   /\ UNCHANGED <<ncvblock, nrows>>
              ELSE /\ ncvblock' = IF fresh THEN ncv ELSE ncvblock
                   /\ start' = IF fresh THEN fpos1[1] ELSE start
                   /\ nrows' = nrows1
                   /\ pc' = IF nrows1 >= args.minrows THEN "post" ELSE "scan"
    /\ UNCHANGED <<args, rv>>
    /\ UNCHANGED loadervars

\* The for loop ends because fid is exhausted.
ScanEnd ==
    /\ pc = "scan"
    /\ pos = Len(args.file)
    /\ pc' = "post"
    /\ UNCHANGED <<args, pos, start, ncvblock, fpos, nrows, hdata, rv>>
    /\ UNCHANGED loadervars

\* usecols as loadtxt gets it: kwargs.setdefault('usecols', range(ncvblock[0])).
LoadtxtCols ==
    IF args.usecols.given THEN args.usecols.cols
    ELSE [k \in 1..ncvblock[1] |-> k - 1]

\* Lines 141-155: what loadData returns.
ReturnValue ==
    IF args.headers THEN [kind |-> "dict", rows |-> <<>>, map |-> hdata]
    ELSE IF start = NoStart THEN EmptyArray
         ELSE loadtxt(LinesFrom(args.file, start), LoadtxtCols)

\* Whether lines 150-154 ran: fid.seek(start) and loadtxt.
LoadtxtCalled == pc = "done" /\ ~args.headers /\ start # NoStart

Return ==
    /\ pc = "post"
    /\ rv' = ReturnValue
    /\ pc' = "done"
    /\ UNCHANGED <<args, pos, start, ncvblock, fpos, nrows, hdata>>
    /\ UNCHANGED loadervars


\* ------------------------------------------------- loadData: the claims
\* Shape of line i of the file, and whether it meets the minimum shape.
ShapeOf(i) == countcolumnsvalues(args.file[i], args.usecols)

Acceptable(i) == ~TupleLess(ShapeOf(i), mincv(args.usecols))

\* minrows consecutive acceptable lines of one shape begin at line i.
QualifyingRun(i) ==
    /\ i + args.minrows - 1 <= Len(args.file)
    /\ \A j \in i..(i + args.minrows - 1) : Acceptable(j) /\ ShapeOf(j) = ShapeOf(i)

HasRun == \E i \in 1..Len(args.file) : QualifyingRun(i)

FirstRun ==
    CHOOSE i \in 1..Len(args.file) :
        QualifyingRun(i) /\ \A j \in 1..(i - 1) : ~QualifyingRun(j)

\* Number of consecutive acceptable lines of the shape of line i, from line i on.
RECURSIVE RunLength(_, _)
RunLength(i, j) ==
    IF j <= Len(args.file) /\ Acceptable(j) /\ ShapeOf(j) = ShapeOf(i)
    THEN 1 + RunLength(i, j + 1)
    ELSE 0

\* C1: with headers=False, a file that holds no run of minrows consecutive
\* acceptable lines of equal shape yields the empty array, and the table
\* parser (loadtxt) is never invoked.
C1_EmptyWithoutRun ==
    (pc = "done" /\ ~args.headers /\ ~HasRun)
        => (rv = EmptyArray /\ ~LoadtxtCalled)

\* C2: when the file holds a qualifying run, the scan stops with start at the
\* byte offset of the first line of the earliest one, having read no line
\* after the line on which the row counter reached minrows.
C2_FirstBlock ==
    (pc \in {"post", "done"} /\ HasRun)
        => /\ start = Offset(args.file, FirstRun)
           /\ pos = FirstRun + args.minrows - 1
           /\ nrows = args.minrows

\* C2's case: the earliest run is neither at the file's start nor the longest,
\* and a shorter candidate block precedes it.
C2_Witness ==
    /\ pc = "done"
    /\ HasRun
    /\ FirstRun > 2
    /\ Acceptable(FirstRun - 1)
    /\ \E i \in (FirstRun + args.minrows)..Len(args.file) :
           QualifyingRun(i) /\ RunLength(i, i) > RunLength(FirstRun, FirstRun)
    /\ start = Offset(args.file, FirstRun)

\* A line that is a header pair: two parts around hdel, both non-blank after
\* trimming, the key starting with none of the hignore tags.
IsHeaderPair(line) ==
    LET parts == splitOn(line, hdel)
    IN  /\ Len(parts) = 2
        /\ strip(parts[1]) # <<>>
        /\ strip(parts[2]) # <<>>
        /\ ~(args.hignore.given /\
             \E t \in 1..Len(args.hignore.tags) :
                 StartsWith(strip(parts[1]), args.hignore.tags[t]))

KeyOf(line) == strip(splitOn(line, hdel)[1])

TypedValueOf(line) ==
    LET v == strip(splitOn(line, hdel)[2])
    IN  IF isfloat(v) THEN FloatValue(float(v)) ELSE StringValue(v)

\* The map of the header pairs among the first n lines, the last one of a key
\* deciding its value.
HeadersOf(n) ==
    LET pairs == {i \in 1..n : IsHeaderPair(args.file[i])}
        last(k) == CHOOSE i \in pairs :
                       /\ KeyOf(args.file[i]) = k
                       /\ \A j \in pairs : KeyOf(args.file[j]) = k => j <= i
    IN  [k \in {KeyOf(args.file[i]) : i \in pairs} |-> TypedValueOf(args.file[last(k)])]

\* C10: with headers=True loadData returns a map, block or no block, that
\* holds one entry per key of the header pairs among the scanned lines, with
\* the value of the last such line, a float when it converts and the trimmed
\* string otherwise; the scenario file yields {qmax: 10.0} only.
C10_HeaderMap ==
    (pc = "done" /\ args.headers)
        => /\ rv.kind = "dict"
           /\ rv.map = HeadersOf(pos)
           /\ (args = ExampleArgs =>
                 rv.map = [k \in {<<"q", "m", "a", "x">>} |-> FloatValue(10)])

\* C10's case: a block was found, and a key set twice among the scanned lines
\* ends with the later value.
C10_Witness ==
    /\ pc = "done"
    /\ args.headers
    /\ nrows >= args.minrows
    /\ \E i \in 1..pos, j \in 1..pos :
           /\ i < j
           /\ IsHeaderPair(args.file[i])
           /\ IsHeaderPair(args.file[j])
           /\ KeyOf(args.file[i]) = KeyOf(args.file[j])
           /\ TypedValueOf(args.file[i]) # TypedValueOf(args.file[j])
           /\ rv.map[KeyOf(args.file[j])] = TypedValueOf(args.file[j])

\* ---------------------------------------------------------- TextDataLoader
\* numpy arrays are sequences; an index of numpy is the position minus one.

\* q[lo:hi] of Python, a negative bound counting from the end.
PySlice(q, lo, hi) ==
    LET n == Len(q)
        l == IF lo < 0 THEN Max2(n + lo, 0) ELSE lo
        h0 == IF hi < 0 THEN Max2(n + hi, 0) ELSE hi
        h == IF h0 > n THEN n ELSE h0
    IN  IF l >= h THEN <<>> ELSE SubSeq(q, l + 1, h)

\* ~a, a & b, a != b on arrays of one length.
BNot(a) == [i \in 1..Len(a) |-> ~a[i]]

BAnd(a, b) == [i \in 1..Len(a) |-> a[i] /\ b[i]]

NotEqual(a, b) == [i \in 1..Len(a) |-> a[i] # b[i]]

\* a | b with numpy's broadcasting of an array of length one.
BOr(a, b) ==
    LET n == IF Len(a) = 1 THEN Len(b) ELSE Len(a)
    IN  [i \in 1..n |-> (IF Len(a) = 1 THEN a[1] ELSE a[i])
                        \/ (IF Len(b) = 1 THEN b[1] ELSE b[i])]

RECURSIVE NonzeroFrom(_, _)
NonzeroFrom(a, i) ==
    IF i > Len(a) THEN <<>>
    ELSE (IF a[i] THEN <<i - 1>> ELSE <<>>) \o NonzeroFrom(a, i + 1)

\* numpy.nonzero(a)[0]
nonzero(a) == NonzeroFrom(a, 1)

RECURSIVE cumsum(_)
cumsum(q) ==
    IF q = <<>> THEN <<>>
    ELSE LET init == cumsum(SubSeq(q, 1, Len(q) - 1))
         IN  Append(init, (IF init = <<>> THEN 0 ELSE init[Len(init)]) + q[Len(q)])

\* Line 208: self._words
WordsOf(lines) == split(Concat(lines))

\* Line 209: self._splitlines
SplitLines(lines) == [i \in 1..Len(lines) |-> split(lines[i])]

\* Lines 215-218
MinCols(usecols) ==
    IF usecols.given /\ Len(usecols.cols) > 0
    THEN LET lo == SeqMin(usecols.cols)
         IN  Max2(Max2(1, SeqMax(usecols.cols) + 1), IF lo < 0 THEN -lo ELSE lo)
    ELSE 1

\* Lines 227-229: lr.nf, lr.nw1, lr.nw0
LineNf(splitlines) == [i \in 1..Len(splitlines) |-> Len(splitlines[i])]

LineNw1(nf) == cumsum(nf)

LineNw0(nf, nw1) == [i \in 1..Len(nf) |-> nw1[i] - nf[i]]

\* Line 236: the word positions n1[lr.nw1[:-1]] = True sets.
Marks(nw1) == {nw1[i] : i \in 1..(Len(nw1) - 1)}

\* Line 236 raises IndexError when a marked position is outside n1.
MarksOutOfBounds(lines) ==
    \E m \in Marks(LineNw1(LineNf(SplitLines(lines)))) : m >= Len(WordsOf(lines))

\* Line 237: lw.line = n1.cumsum()
WordLine(nw1, nwords) ==
    [w \in 1..nwords |-> Cardinality({m \in Marks(nw1) : m <= w - 1})]

\* Line 238: lw.col = lw.idx - lr.nw0[lw.line]
WordCol(nw0, wline) == [w \in 1..Len(wline) |-> (w - 1) - nw0[wline[w] + 1]]

\* Lines 239-245: lw.ok
WordOk(words) == [w \in 1..Len(words) |-> isfloat(words[w])]

\* Lines 230 and 248-254: lr.ok
LineOk(nlines, usecols, wline, wcol, wok) ==
    [i \in 1..nlines |->
        IF ~usecols.given
        THEN ~\E w \in 1..Len(wok) : ~wok[w] /\ wline[w] = i - 1
        ELSE ~\E w \in 1..Len(wok), k \in 1..Len(usecols.cols) :
                  /\ wcol[w] = usecols.cols[k]
                  /\ ~wok[w]
                  /\ wline[w] = i - 1]

\* Lines 223-254: self._linerecs
LineRecs(lines, usecols) ==
    LET words == WordsOf(lines)
        nf == LineNf(SplitLines(lines))
        nw1 == LineNw1(nf)
        nw0 == LineNw0(nf, nw1)
        wline == WordLine(nw1, Len(words))
        wcol == WordCol(nw0, wline)
        ok == LineOk(Len(lines), usecols, wline, wcol, WordOk(words))
    IN  [i \in 1..Len(lines) |->
            [idx |-> i - 1, nw0 |-> nw0[i], nw1 |-> nw1[i], nf |-> nf[i], ok |-> ok[i]]]

RECURSIVE Filter(_, _)
Filter(recs, mincols) ==
    IF recs = <<>> THEN <<>>
    ELSE (IF Head(recs).nf >= mincols THEN <<Head(recs)>> ELSE <<>>)
         \o Filter(Tail(recs), mincols)

\* Line 255: lr1 = lr[lr.nf >= mincols]
Lr1(lines, usecols) == Filter(LineRecs(lines, usecols), MinCols(usecols))

\* Lines 256-261 on the fields of lr1.
Okb(ok) ==
    PySlice(ok, 0, 1) \o BAnd(PySlice(ok, 1, Len(ok)), BNot(PySlice(ok, 0, -1)))
    \o <<FALSE>>

Oke(ok) ==
    <<FALSE>> \o BAnd(BNot(PySlice(ok, 1, Len(ok))), PySlice(ok, 0, -1))
    \o PySlice(ok, -1, Len(ok))

Blockb(nf) ==
    <<TRUE>> \o NotEqual(PySlice(nf, 1, Len(nf)), PySlice(nf, 0, -1)) \o <<FALSE>>

Blocke(nf) == <<FALSE>> \o PySlice(Blockb(nf), 1, -1) \o <<TRUE>>

Beg(lr1) ==
    nonzero(BOr(Okb([i \in 1..Len(lr1) |-> lr1[i].ok]),
                Blockb([i \in 1..Len(lr1) |-> lr1[i].nf])))

End(lr1) ==
    nonzero(BOr(Oke([i \in 1..Len(lr1) |-> lr1[i].ok]),
                Blocke([i \in 1..Len(lr1) |-> lr1[i].nf])))

\* Line 262: end - beg raises ValueError when the lengths differ and neither
\* is one.
CanSubtract(beg, end) == Len(beg) = Len(end) \/ Len(beg) = 1 \/ Len(end) = 1

\* Line 262: rowcounts = end - beg, an array of length one broadcast.
RowCounts(beg, end) ==
    LET n == IF Len(beg) = 1 THEN Len(end) ELSE Len(beg)
    IN  [i \in 1..n |-> (IF Len(end) = 1 THEN end[1] ELSE end[i])
                        - (IF Len(beg) = 1 THEN beg[1] ELSE beg[i])]

RECURSIVE GoodPairs(_, _, _, _)
GoodPairs(beg, end, minrows, i) ==
    IF i > Len(beg) THEN <<>>
    ELSE (IF end[i] - beg[i] >= minrows THEN << <<beg[i], end[i] - 1>> >> ELSE <<>>)
         \o GoodPairs(beg, end, minrows, i + 1)

\* Lines 264-265: begend = numpy.transpose([beg, end - 1])[goodrows], for beg
\* and end of one length.
BegEnd(beg, end, minrows) == GoodPairs(beg, end, minrows, 1)

\* Line 274: numpy.reshape(lw.value[bb1.nw0:ee1.nw1], (-1, bb1.nf)); ValueError
\* when the slice does not divide into rows of bb1.nf.
AllColumns(value, bb1, ee1) ==
    LET vals == PySlice(value, bb1.nw0, ee1.nw1)
    IN  IF Len(vals) % bb1.nf # 0 THEN [ok |-> FALSE, rows |-> <<>>]
        ELSE [ok |-> TRUE,
              rows |-> [r \in 1..(Len(vals) \div bb1.nf) |->
                           [c \in 1..bb1.nf |-> vals[(r - 1) * bb1.nf + c]]]]

\* lw.value[first:stop:step]
RECURSIVE Strided(_, _, _, _)
Strided(value, first, stop, step) ==
    IF first >= stop \/ first >= Len(value) THEN <<>>
    ELSE <<value[first + 1]>> \o Strided(value, first + step, stop, step)

\* Line 276: the number of rows tdata is allocated with.
TdataRows(dbeg, dend) == dend - dbeg

\* Lines 276-280: tdata row k gets lw.value[bb1.nw0 + j : ee1.nw1 : bb1.nf];
\* the assignment raises ValueError unless the slice has the row's length or
\* length one (which is broadcast).  data is tdata transposed.
SelectedColumns(cols, value, bb1, ee1, nrow) ==
    LET src(k) == Strided(value, bb1.nw0 + (cols[k] % bb1.nf), ee1.nw1, bb1.nf)
    IN  IF \E k \in 1..Len(cols) : Len(src(k)) # nrow /\ Len(src(k)) # 1
        THEN [ok |-> FALSE, rows |-> <<>>]
        ELSE [ok |-> TRUE,
              rows |-> [r \in 1..nrow |->
                           [k \in 1..Len(cols) |->
                               IF Len(src(k)) = 1 THEN src(k)[1] ELSE src(k)[r]]]]

\* Lines 273-280
BlockData(usecols, value, bb1, ee1, dbeg, dend) ==
    IF ~usecols.given THEN AllColumns(value, bb1, ee1)
    ELSE SelectedColumns(usecols.cols, value, bb1, ee1, TdataRows(dbeg, dend))

NoBlocks == [hbeg |-> 0, headers |-> <<>>, datasets |-> <<>>, emitted |-> <<>>,
             exc |-> "none"]

\* A loop that appends the header as soon as it is cut, before the data are
\* built: a block whose data raise leaves its header behind.
RECURSIVE MaterializeHeaderFirst(_, _, _, _, _, _)
MaterializeHeaderFirst(lines, usecols, lr1, value, begend, acc) ==
    IF begend = <<>> THEN acc
    ELSE IF lr1 = <<>> THEN [acc EXCEPT !.exc = "IndexError"]
    ELSE LET dbeg == Head(begend)[1]
             dend == Head(begend)[2]
             bb1 == lr1[dbeg + 1]
             ee1 == lr1[dend + 1]
             header == Concat(PySlice(lines, acc.hbeg, bb1.idx))
             data == BlockData(usecols, value, bb1, ee1, dbeg, dend)
         IN  IF ~data.ok
             THEN [acc EXCEPT !.exc = "ValueError", !.hbeg = ee1.idx + 1,
                              !.headers = Append(acc.headers, header)]
             ELSE MaterializeHeaderFirst(lines, usecols, lr1, value, Tail(begend),
                      [hbeg |-> ee1.idx + 1,
                       headers |-> Append(acc.headers, header),
                       datasets |-> Append(acc.datasets, data.rows),
                       emitted |-> Append(acc.emitted,
                                          [first |-> bb1.idx, last |-> ee1.idx]),
                       exc |-> "none"])

\* Lines 267-282: the loop over begend.  emitted records, for each dataset the
\* loop appended, the source lines bb1.idx and ee1.idx it was cut from.
RECURSIVE Materialize(_, _, _, _, _, _)
Materialize(lines, usecols, lr1, value, begend, acc) ==
    IF begend = <<>> THEN acc
    ELSE IF lr1 = <<>> THEN [acc EXCEPT !.exc = "IndexError"]
    ELSE LET dbeg == Head(begend)[1]
             dend == Head(begend)[2]
             bb1 == lr1[dbeg + 1]
             ee1 == lr1[dend + 1]
             header == Concat(PySlice(lines, acc.hbeg, bb1.idx))
             data == BlockData(usecols, value, bb1, ee1, dbeg, dend)
         IN  IF ~data.ok
             THEN [acc EXCEPT !.exc = "ValueError", !.hbeg = ee1.idx + 1]
             ELSE Materialize(lines, usecols, lr1, value, Tail(begend),
                      [hbeg |-> ee1.idx + 1,
                       headers |-> Append(acc.headers, header),
                       datasets |-> Append(acc.datasets, data.rows),
                       emitted |-> Append(acc.emitted,
                                          [first |-> bb1.idx, last |-> ee1.idx]),
                       exc |-> "none"])

\* Lines 283-288: the last header, with an empty dataset.
Trailing(lines, acc) ==
    IF acc.exc = "none" /\ acc.hbeg < Len(lines)
    THEN [acc EXCEPT !.headers = Append(acc.headers,
                                        Concat(PySlice(lines, acc.hbeg, Len(lines)))),
                     !.datasets = Append(acc.datasets, <<>>)]
    ELSE acc

\* Lines 214-265: the exception raised before the loop, if any, and what the
\* loop works on: lr1 and begend.
\* Line 265 with beg and end of different lengths builds an array from two
\* rows of different lengths, which numpy refuses with ValueError.
BlockPlan(lines, minrows, usecols) ==
    LET lr1 == Lr1(lines, usecols)
        beg == Beg(lr1)
        end == End(lr1)
        raised == IF MarksOutOfBounds(lines) THEN "IndexError"
                  ELSE IF ~CanSubtract(beg, end) THEN "ValueError"
                  ELSE IF \E i \in 1..Len(RowCounts(beg, end)) :
                              RowCounts(beg, end)[i] < 0
                       THEN "AssertionError"
                  ELSE IF Len(beg) # Len(end) THEN "ValueError"
                  ELSE "none"
    IN  [exc |-> raised, lr1 |-> lr1,
         begend |-> IF raised = "none" THEN BegEnd(beg, end, minrows) ELSE <<>>]

\* Lines 266-289 on a plan, with value what the field lw.value holds.
BlocksOf(lines, usecols, plan, value) ==
    IF plan.exc # "none" THEN [NoBlocks EXCEPT !.exc = plan.exc]
    ELSE Trailing(lines,
             Materialize(lines, usecols, plan.lr1, value, plan.begend, NoBlocks))

\* _findDataBlocks (lines 214-289) on self._lines.  The result is what
\* self.headers and self.datasets hold when it returns or raises, and the
\* exception raised.
findDataBlocks(lines, minrows, usecols, value) ==
    BlocksOf(lines, usecols, BlockPlan(lines, minrows, usecols), value)

\* Lines 232-233 allocate lw without initializing it, and line 247 assigns the
\* parsed floats to an attribute `values` that is no field of lw: the field
\* lw.value keeps whatever the allocation held.  That content is arbitrary;
\* the model draws it from three fills: zeroed memory, memory full of a stale
\* value, and a mix of the two.
StaleValue == 99

ValueFields(lines) ==
    LET n == Len(WordsOf(lines))
    IN  {[w \in 1..n |-> 0],
         [w \in 1..n |-> StaleValue],
         [w \in 1..n |-> IF w % 2 = 1 THEN StaleValue ELSE 0]}

\* The lines the files given to readfp are made of.
LnText == <<"a", " ", "b", "\n">>

\* A row whose first column only is a float.
LnMixed == <<"4", " ", "c", "\n">>

\* The spec's scenario, with two rows: a text line of the rows' width, the
\* rows, a trailing text line.
TrailerFile == <<LnText, LnTwo, LnTwo, LnText>>

LoaderFiles ==
    SeqsUpTo({LnTwo, LnOne, LnText, LnMixed, LnBlank}, MaxFileLines)
    \cup {TrailerFile}

LoaderCols == {NoCols, Cols(<<0>>), Cols(<<1>>), Cols(<<-1, 0>>)}

\* A loader whose _reset changes nothing.
resetKeep(l) == l

\* _reset and _resetvars (lines 178-193) on the loader l.
reset(l) ==
    [l EXCEPT !.headers = <<>>, !.datasets = <<>>, !.lines = <<>>, !.value = <<>>]

\* The loader l after readfp (lines 203-210) on lines: the entries _findDataBlocks
\* made are appended to what _reset left.
ReadInto(l, lines, res, value) ==
    [reset(l) EXCEPT !.headers = @ \o res.headers,
                     !.datasets = @ \o res.datasets,
                     !.lines = lines,
                     !.value = value]

\* __init__ (lines 166-175), and a file to read.
LoaderInit ==
    /\ loader \in [minrows : 1..MaxMinRows, usecols : LoaderCols,
                   headers : {<<>>}, datasets : {<<>>}, lines : {<<>>},
                   value : {<<>>}]
    /\ fp \in LoaderFiles
    /\ exc = "none"
    /\ emitted = <<>>
    /\ calls = 0
    /\ before = <<>>

\* readfp (lines 202-211): _reset, readlines, _findDataBlocks.
Readfp ==
    /\ calls = 0
    /\ LET plan == BlockPlan(fp, loader.minrows, loader.usecols)
       IN  \E value \in ValueFields(fp) :
          LET res == BlocksOf(fp, loader.usecols, plan, value)
          IN  /\ loader' = ReadInto(loader, fp, res, value)
              /\ exc' = res.exc
              /\ emitted' = res.emitted
    /\ calls' = calls + 1
    /\ before' = loader.headers
    /\ UNCHANGED fp
    /\ UNCHANGED scanvars

\* The files a loader is used on again: the empty file, text only, a file
\* ending in a blank line, a block after a narrower row, a row between two
\* mixed lines, rows of alternating widths.
ReuseFiles ==
    {<<>>, <<LnText>>, <<LnTwo, LnBlank>>, <<LnOne, LnTwo, LnTwo>>,
     <<LnMixed, LnTwo, LnMixed>>, <<LnOne, LnTwo, LnOne>>}

\* A later readfp call on the same loader (lines 202-211), on another file.
ReadfpNext ==
    /\ calls >= 1
    /\ calls < MaxCalls
    /\ \E f \in ReuseFiles :
          LET plan == BlockPlan(f, loader.minrows, loader.usecols)
          IN  \E value \in ValueFields(f) :
                LET res == BlocksOf(f, loader.usecols, plan, value)
                IN  /\ loader' = ReadInto(loader, f, res, value)
                    /\ exc' = res.exc
                    /\ emitted' = res.emitted
                    /\ fp' = f
    /\ calls' = calls + 1
    /\ before' = loader.headers
    /\ UNCHANGED scanvars

\* __init__ (lines 166-175), and the first file of several.
ReuseInit ==
    /\ loader \in [minrows : 1..MaxMinRows, usecols : LoaderCols,
                   headers : {<<>>}, datasets : {<<>>}, lines : {<<>>},
                   value : {<<>>}]
    /\ fp \in ReuseFiles
    /\ exc = "none"
    /\ emitted = <<>>
    /\ calls = 0
    /\ before = <<>>

\* No loader exists while loadData is checked, and no scan while the loader is.
LoaderIdle ==
    /\ loader = [minrows |-> DefaultMinRows, usecols |-> NoCols, headers |-> <<>>,
                 datasets |-> <<>>, lines |-> <<>>, value |-> <<>>]
    /\ fp = <<>>
    /\ exc = "none"
    /\ emitted = <<>>
    /\ calls = 0
    /\ before = <<>>

ScanIdle ==
    /\ args = [file |-> <<>>, minrows |-> DefaultMinRows, headers |-> FALSE,
               hignore |-> NoTags, usecols |-> NoCols]
    /\ pc = "idle"
    /\ pos = 0
    /\ start = NoStart
    /\ ncvblock = <<-1, -1>>
    /\ fpos = <<0, 0>>
    /\ nrows = 0
    /\ hdata = EmptyMap
    /\ rv = NoResult

InitLoader == LoaderInit /\ ScanIdle

NextLoader == Readfp

SpecLoader == InitLoader /\ [][NextLoader]_vars

InitReuse == ReuseInit /\ ScanIdle

NextReuse == Readfp \/ ReadfpNext

SpecReuse == InitReuse /\ [][NextReuse]_vars

InitLoadData == ScanInit /\ LoaderIdle

NextLoadData == ScanLine \/ ScanEnd \/ Return

SpecLoadData == InitLoadData /\ [][NextLoadData]_vars

\* loadData called with headers=True only.
InitHeaderScan == InitLoadData /\ args.headers

SpecHeaderScan == InitHeaderScan /\ [][NextLoadData]_vars

\* -------------------------------------------- TextDataLoader: the claims
\* The tokens of line i (from 1) of the file read, and their number.
TokensOf(i) == split(loader.lines[i])

WidthOf(i) == Len(TokensOf(i))

\* Every token of line i is a float, and there is one.
FullyNumeric(i) ==
    WidthOf(i) >= 1 /\ \A c \in 1..WidthOf(i) : isfloat(TokensOf(i)[c])

\* Line i survives the minimum-columns filter.
Survives(i) == WidthOf(i) >= MinCols(loader.usecols)

\* The ok flag line i is meant to have: all its tokens, or with usecols the
\* tokens at the selected columns, parse as float.
MeantOk(i) ==
    IF ~loader.usecols.given THEN \A c \in 1..WidthOf(i) : isfloat(TokensOf(i)[c])
    ELSE \A k \in 1..Len(loader.usecols.cols) :
             isfloat(TokensOf(i)[(loader.usecols.cols[k] % WidthOf(i)) + 1])

\* minrows consecutive fully-numeric lines of one width begin at line i.
NumericRun(i) ==
    /\ i + loader.minrows - 1 <= Len(loader.lines)
    /\ \A j \in i..(i + loader.minrows - 1) :
           FullyNumeric(j) /\ WidthOf(j) = WidthOf(i)

HasNumericRun == \E i \in 1..Len(loader.lines) : NumericRun(i)

\* The source lines of the dataset the loop appended k-th (line numbers from 1).
FirstLine(k) == emitted[k].first + 1

LastLine(k) == emitted[k].last + 1

\* C3: readfp on a file with no qualifying block (no run of minrows
\* fully-numeric lines of one width) returns without raising, and datasets
\* holds no matrix with rows: at most one header-only entry.
C3_NoBlockNoError ==
    (calls = 1 /\ ~HasNumericRun)
        => /\ exc = "none"
           /\ Len(loader.datasets) <= 1
           /\ \A k \in 1..Len(loader.datasets) : loader.datasets[k] = <<>>

\* C4: every block emitted with a non-empty matrix consists only of ok lines of
\* one width: each surviving line of its range has all its (selected) tokens
\* parse as float and the token count of the range's first line.
C4_BlocksAreNumeric ==
    \A k \in 1..Len(emitted) :
        loader.datasets[k] # <<>>
            => \A i \in FirstLine(k)..LastLine(k) :
                   Survives(i) => (MeantOk(i) /\ WidthOf(i) = WidthOf(FirstLine(k)))

\* C5: the emitted blocks are strictly ordered by source position and do not
\* overlap, and the header of each is the source text strictly between the
\* end of the block before it (or the file's start) and its own start.
C5_BlocksOrdered ==
    \A k \in 1..Len(emitted) :
        /\ k > 1 => LastLine(k - 1) < FirstLine(k)
        /\ loader.headers[k] =
               Concat(SubSeq(loader.lines,
                             IF k = 1 THEN 1 ELSE LastLine(k - 1) + 1,
                             FirstLine(k) - 1))

\* The text of entry k: its header, then the source lines of its block.
EntryText(k) ==
    loader.headers[k]
    \o (IF k <= Len(emitted)
        THEN Concat(SubSeq(loader.lines, FirstLine(k), LastLine(k)))
        ELSE <<>>)

\* C6: the entries partition the file: the headers and the block texts, in
\* output order, concatenate to the file's text.
C6_Partition ==
    (calls = 1 /\ exc = "none")
        => Concat([k \in 1..Len(loader.headers) |-> EntryText(k)])
               = Concat(loader.lines)

\* Line i holds text: it has tokens, and not all of them are floats.
IsText(i) == WidthOf(i) >= 1 /\ ~FullyNumeric(i)

\* The file is one text line, R >= minrows fully-numeric rows of one width,
\* then text lines only, at least one.
IsTrailerScenario(R) ==
    /\ R >= loader.minrows
    /\ Len(loader.lines) >= R + 2
    /\ IsText(1)
    /\ \A i \in 2..(R + 1) : FullyNumeric(i) /\ WidthOf(i) = WidthOf(2)
    /\ \A i \in (R + 2)..Len(loader.lines) : IsText(i)

\* C7: on such a file, with all columns used, the indexer returns two entries:
\* a block of exactly R rows, and a header-only entry holding the trailing text.
C7_BlockAndTrailer ==
    \A R \in 1..Len(loader.lines) :
        (calls = 1 /\ ~loader.usecols.given /\ IsTrailerScenario(R))
            => /\ exc = "none"
               /\ Len(loader.datasets) = 2
               /\ Len(loader.datasets[1]) = R
               /\ loader.datasets[2] = <<>>
               /\ loader.headers[2] =
                      Concat(SubSeq(loader.lines, R + 2, Len(loader.lines)))

\* The plan of the call made: what lines 214-265 computed.
PlanMade == BlockPlan(loader.lines, loader.minrows, loader.usecols)

\* C8: with usecols, every accepted block of R rows and width w yields, without
\* raising, an R x len(usecols) matrix whose k-th column is the column
\* usecols[k] modulo w of the block's rows.  The calls in question are those
\* that reach the loop over the accepted blocks with lines to cut them from.
C8_SelectedColumns ==
    (calls = 1 /\ loader.usecols.given /\ PlanMade.exc = "none"
               /\ PlanMade.lr1 # <<>>)
        => /\ exc = "none"
           /\ \A b \in 1..Len(emitted) :
                  LET rows == SelectSeq([i \in 1..(LastLine(b) - FirstLine(b) + 1) |->
                                            FirstLine(b) + i - 1],
                                        Survives)
                  IN  /\ Len(loader.datasets[b]) = Len(rows)
                      /\ \A r \in 1..Len(rows) :
                             loader.datasets[b][r] =
                                 [k \in 1..Len(loader.usecols.cols) |->
                                     LET t == TokensOf(rows[r])[
                                              (loader.usecols.cols[k] % WidthOf(rows[r])) + 1]
                                     IN  IF isfloat(t) THEN float(t) ELSE 0]

\* C9: the value field read when the matrix is built holds, for every token,
\* the float parsed from it (0 for a token that does not parse), so that with
\* all columns used cell (r, c) of a block is the float of token c of row r.
C9_ParsedValues ==
    (calls = 1 /\ ~loader.usecols.given)
        => \A w \in 1..Len(loader.value) :
               loader.value[w] =
                   (IF isfloat(WordsOf(loader.lines)[w])
                    THEN float(WordsOf(loader.lines)[w]) ELSE 0)

\* What a loader constructed with the minrows and usecols of the one in use
\* holds after one readfp on the file read last, the value field being the same.
FreshLoader ==
    [minrows |-> loader.minrows, usecols |-> loader.usecols, headers |-> <<>>,
     datasets |-> <<>>, lines |-> <<>>, value |-> <<>>]

AfterLastAlone ==
    ReadInto(FreshLoader, fp,
             findDataBlocks(fp, loader.minrows, loader.usecols, loader.value),
             loader.value)

\* C11: after any sequence of readfp calls on one loader, returning or raising,
\* headers and datasets are what a fresh loader of the same minrows and usecols
\* holds after the last call alone: nothing of an earlier file survives.
C11_LastCallOnly ==
    calls >= 1
        => /\ loader.headers = AfterLastAlone.headers
           /\ loader.datasets = AfterLastAlone.datasets

\* C11's case: a later call on a loader that held entries of an earlier file,
\* which raised after it had appended entries of its own.
C11_Witness ==
    /\ calls >= 2
    /\ before # <<>>
    /\ exc # "none"
    /\ loader.headers # <<>>
    /\ loader.headers # before

\* Line i is an ok row: it has tokens, and all of them, or with usecols those
\* at the selected columns, parse as float.
OkRow(i) == WidthOf(i) >= 1 /\ Survives(i) /\ MeantOk(i)

\* C12: a gap is a hard break: no emitted block holds two ok rows of one width
\* with, between them, a line that is not an ok row of that width (a blank
\* line, a non-numeric line): two such runs are never merged into one block.
C12_GapBreaks ==
    \A k \in 1..Len(emitted) :
        \A i, j \in FirstLine(k)..LastLine(k) :
            (i < j /\ OkRow(i) /\ OkRow(j) /\ WidthOf(i) = WidthOf(j))
                => \A g \in (i + 1)..(j - 1) :
                       OkRow(g) /\ WidthOf(g) = WidthOf(i)

C14_PairedLists == Len(loader.headers) = Len(loader.datasets)

\* C14's case: a readfp call raised in the loop over the blocks after it had
\* appended an entry.
C14_Witness ==
    /\ calls >= 1
    /\ exc = "ValueError"
    /\ Len(loader.datasets) >= 1

====
